---- MODULE Spec2Model ----
(***************************************************************************)
(* The socket unit of cmd/manager/socket.c as a state machine.             *)
(*                                                                         *)
(* The unit is one record (the fields of Socket that the state machine     *)
(* reads and writes); every C function that changes it is an operator      *)
(* from a unit record to the SET of unit records the function can leave    *)
(* behind, one per outcome of the external calls it makes (exec_spawn,     *)
(* fork, unit_watch_*, unit_kill_context, the endpoint constructors).      *)
(* The event loop is single-threaded, so one action is one whole handler.  *)
(***************************************************************************)
EXTENDS Integers, Sequences, FiniteSets, TLC

VARIABLES
    cfg,    \* the loaded configuration, immutable after load
    unit    \* the runtime fields of Socket, and history fields named g_*

vars == <<cfg, unit>>

(***************************************************************************)
(* Bounds of the model.                                                    *)
(***************************************************************************)
NumPorts == 2     \* endpoints of the unit
MaxCmds == 2      \* commands of a non-empty exec command list
MaxPid == 2       \* pids the kernel hands out to this unit's children

Ports == 1..NumPorts
Pids == 1..MaxPid

SocketState ==
    {"Dead", "StartPre", "StartChown", "StartPost", "Listening", "Running",
     "StopPre", "StopPreSigterm", "StopPreSigkill", "StopPost",
     "FinalSigterm", "FinalSigkill", "Failed"}

SocketResult ==
    {"Success", "FailureResources", "FailureTimeout", "FailureExitCode",
     "FailureSignal", "FailureCoreDump", "FailureServicePermanent"}

SocketExecCommand == {"StartPre", "StartChown", "StartPost", "StopPre", "StopPost"}

\* The states socket_set_state keeps the timer and the control pid in.
TransientStates ==
    {"StartPre", "StartChown", "StartPost", "StopPre", "StopPreSigterm",
     "StopPreSigkill", "StopPost", "FinalSigterm", "FinalSigkill"}

\* The states socket_set_state keeps the endpoints open in.
OpenStates ==
    {"StartChown", "StartPost", "Listening", "Running", "StopPre",
     "StopPreSigterm", "StopPreSigkill"}

StartStates == {"StartPre", "StartChown", "StartPost"}

StopStates ==
    {"StopPre", "StopPreSigterm", "StopPreSigkill", "StopPost",
     "FinalSigterm", "FinalSigkill"}

QuiescentStates == {"Dead", "Listening", "Running", "Failed"}

(***************************************************************************)
(* Configuration.  Every exec command list is empty or holds MaxCmds       *)
(* commands; a control_command cursor is 0 (NULL) or the index of the      *)
(* current command in its list.                                            *)
(***************************************************************************)
\* The endpoint list of the modelled unit.  socket_verify refuses Accept=yes
\* with an endpoint that is no accepting socket, so such a unit has sockets
\* only; the other units have a FIFO followed by sockets.
port_type(accept, p) == IF accept \/ p > 1 THEN "Socket" ELSE "Fifo"

Configs ==
    {c \in [accept : BOOLEAN,
            user : BOOLEAN,            \* !isempty(s->user) || !isempty(s->group)
            send_sigkill : BOOLEAN,    \* s->kill_context.send_sigkill
            ignore : BOOLEAN,          \* ExecCommand.ignore of the commands
            ncmd : [{"StartPre", "StartPost", "StopPre", "StopPost"} -> {0, MaxCmds}],
            ptype : [Ports -> {"Socket", "Fifo"}]] :
        \A p \in Ports : c.ptype[p] = port_type(c.accept, p)}

\* s->exec_command[id]: the head of the list, NULL (0) when the list is empty.
exec_command(id) == IF id = "StartChown" \/ cfg.ncmd[id] = 0 THEN 0 ELSE 1

\* c->command_next: 0 (NULL) after the last command of list id.
command_next(id, c) == IF id # "StartChown" /\ c < cfg.ncmd[id] THEN c + 1 ELSE 0

\* The descriptor endpoint p gets when it is opened.
OpenFd(p) == p + 2

\* A pid the kernel can hand to a new child: none of the living ones.
FreePids(s) == Pids \ s.children

NewPid(s) == CHOOSE pid \in FreePids(s) : \A q \in FreePids(s) : pid <= q

\* The result of a step: the unit it leaves and the C return value.
Ret(s, r) == [s |-> s, r |-> r]

(***************************************************************************)
(* Small helpers of socket.c.                                              *)
(***************************************************************************)
socket_unwatch_control_pid(s) ==
    IF s.control_pid <= 0 THEN s
    ELSE [s EXCEPT !.pid_watch = @ \ {s.control_pid}, !.control_pid = 0]

socket_close_fds(s) ==
    [s EXCEPT !.watched = [p \in Ports |-> IF s.fd[p] < 0 THEN s.watched[p] ELSE FALSE],
              !.fd = [p \in Ports |-> IF s.fd[p] < 0 THEN s.fd[p] ELSE -1]]

socket_unwatch_fds(s) ==
    [s EXCEPT !.watched = [p \in Ports |-> IF s.fd[p] < 0 THEN s.watched[p] ELSE FALSE]]

\* unit_watch_fd on the open endpoints in list order; the first failure
\* unwatches them all again.
RECURSIVE watch_from(_, _)
watch_from(s, p) ==
    IF p > NumPorts THEN {Ret(s, 0)}
    ELSE IF s.fd[p] < 0 THEN watch_from(s, p + 1)
    ELSE {Ret(socket_unwatch_fds(s), -1)}
         \cup watch_from([s EXCEPT !.watched[p] = TRUE], p + 1)

socket_watch_fds(s) == watch_from(s, 1)

\* 's->result = f;' without the test: the fault that property C29 has to
\* reject.
latch_result_unconditional(s, f) == [s EXCEPT !.result = f]

\* if (f != SOCKET_SUCCESS) s->result = f;
latch_result(s, f) == IF f # "Success" THEN [s EXCEPT !.result = f] ELSE s

socket_instantiate_service(s) ==
    IF s.service THEN {Ret(s, 0)}
    ELSE {Ret(s, -1),                                  \* ENOMEM, manager_load_unit
          Ret([s EXCEPT !.service = TRUE], 0),
          Ret([s EXCEPT !.service = TRUE], -1)}        \* unit_add_two_dependencies

\* socket_open_fds from endpoint p on.  A failing constructor rolls back
\* with socket_close_fds; a failing preparatory step returns at once.
RECURSIVE open_from(_, _, _)
open_from(s, p, know_label) ==
    IF p > NumPorts THEN {Ret(s, 0)}
    ELSE IF s.fd[p] >= 0 THEN open_from(s, p + 1, know_label)
    ELSE LET listen(t, k) ==
                 {Ret(socket_close_fds(t), -1)}
                 \cup open_from([t EXCEPT !.fd[p] = OpenFd(p)], p + 1, k)
         IN IF cfg.ptype[p] = "Socket" /\ ~know_label
            THEN UNION {IF i.r < 0 THEN {Ret(i.s, -1)}
                        ELSE (IF i.s.service THEN {Ret(i.s, -1)} ELSE {})  \* label
                             \cup listen(i.s, TRUE)
                        : i \in socket_instantiate_service(s)}
            ELSE listen(s, know_label)

socket_open_fds(s) == open_from(s, 1, FALSE)

\* socket_set_state without the socket_close_fds call: the fault that
\* property C1 has to reject.
socket_set_state_keeps_fds(s, state) ==
    LET s1 == [s EXCEPT !.state = state]
        s2 == IF state \notin TransientStates
              THEN [socket_unwatch_control_pid([s1 EXCEPT !.timer = FALSE])
                        EXCEPT !.control_command = 0,
                               !.control_command_id = "Invalid"]
              ELSE s1
    IN IF state # "Listening" THEN socket_unwatch_fds(s2) ELSE s2

\* socket_set_state without the socket_unwatch_fds call: the fault that
\* property C10 has to reject.
socket_set_state_keeps_watches(s, state) ==
    LET s1 == [s EXCEPT !.state = state]
        s2 == IF state \notin TransientStates
              THEN [socket_unwatch_control_pid([s1 EXCEPT !.timer = FALSE])
                        EXCEPT !.control_command = 0,
                               !.control_command_id = "Invalid"]
              ELSE s1
    IN IF state \notin OpenStates THEN socket_close_fds(s2) ELSE s2

socket_set_state(s, state) ==
    LET s1 == [s EXCEPT !.state = state]
        s2 == IF state \notin TransientStates
              THEN [socket_unwatch_control_pid([s1 EXCEPT !.timer = FALSE])
                        EXCEPT !.control_command = 0,
                               !.control_command_id = "Invalid"]
              ELSE s1
        s3 == IF state # "Listening" THEN socket_unwatch_fds(s2) ELSE s2
    IN IF state \notin OpenStates THEN socket_close_fds(s3) ELSE s3

(***************************************************************************)
(* Control children.                                                       *)
(***************************************************************************)
\* The return values of unit_watch_timer / unit_watch_pid.
unit_watch_result == {0, -1}

\* The return values of unit_kill_context: <0 error, 0 nothing to wait
\* for, >0 processes were signalled.
unit_kill_context == {-1, 0, 1}

socket_spawn(s, c) ==
    LET fail == Ret([s EXCEPT !.timer = FALSE], -1)
        pid == NewPid(s)
    IN {fail}                                           \* unit_watch_timer, printf, exec_spawn
       \cup (IF FreePids(s) = {} THEN {}
             ELSE {\* unit_watch_pid fails: the child runs, nothing records it
                   Ret([s EXCEPT !.timer = FALSE, !.children = @ \cup {pid}], -1),
                   Ret([s EXCEPT !.timer = TRUE,
                                 !.children = @ \cup {pid},
                                 !.pid_watch = @ \cup {pid},
                                 !.control_pid = pid], 0)})

socket_chown(s) ==
    LET pid == NewPid(s)
    IN {Ret(s, -1)}                                     \* fork
       \cup (IF FreePids(s) = {} THEN {}
             ELSE {Ret([s EXCEPT !.children = @ \cup {pid}], -1),   \* unit_watch_pid
                   Ret([s EXCEPT !.children = @ \cup {pid},
                                 !.pid_watch = @ \cup {pid},
                                 !.control_pid = pid], 0)})

(***************************************************************************)
(* State transitions.  s.state still holds the state the handler started   *)
(* in until socket_set_state runs, as in the C code.                       *)
(***************************************************************************)
\* History only: a step of the start path has failed (the handler began in
\* Dead, Failed or a start state and took a failure branch).
start_step_failed(s) ==
    IF s.state \in StartStates \cup {"Dead", "Failed"}
    THEN [s EXCEPT !.g_start_failed = TRUE]
    ELSE s

\* s->control_command_id = id; s->control_command = s->exec_command[id];
set_control_command(s, id) ==
    [socket_unwatch_control_pid(s) EXCEPT !.control_command_id = id,
                                          !.control_command = exec_command(id)]

\* socket_enter_dead without the socket_set_state call: the fault that
\* property C5 has to reject.
socket_enter_dead_keeps_state(s, f) == {latch_result(s, f)}

\* socket_enter_dead entering Dead whatever the latched result is: the fault
\* that property C12 has to reject.
socket_enter_dead_always_dead(s, f) == {socket_set_state(latch_result(s, f), "Dead")}

socket_enter_dead(s, f) ==
    LET s1 == latch_result(s, f)
    IN {socket_set_state(s1, IF s1.result # "Success" THEN "Failed" ELSE "Dead")}

RECURSIVE socket_enter_signal(_, _, _)

socket_enter_stop_post(s, f) ==
    LET s1 == set_control_command(latch_result(s, f), "StopPost")
    IN IF s1.control_command # 0
       THEN UNION {IF o.r < 0
                   THEN socket_enter_signal(o.s, "FinalSigterm", "FailureResources")
                   ELSE {socket_set_state(o.s, "StopPost")}
                   : o \in socket_spawn(s1, s1.control_command)}
       ELSE socket_enter_signal(s1, "FinalSigterm", "Success")

socket_enter_signal(s, state, f) ==
    LET s1 == latch_result(s, f)
        fail == IF state \in {"StopPreSigterm", "StopPreSigkill"}
                THEN socket_enter_stop_post(s1, "FailureResources")
                ELSE socket_enter_dead(s1, "FailureResources")
    IN UNION {IF r < 0 THEN fail
              ELSE IF r > 0
              THEN UNION {IF w < 0 THEN fail
                          ELSE {socket_set_state([s1 EXCEPT !.timer = TRUE], state)}
                          : w \in unit_watch_result}
              ELSE IF state \in {"StopPreSigterm", "StopPreSigkill"}
              THEN socket_enter_stop_post(s1, "Success")
              ELSE socket_enter_dead(s1, "Success")
              : r \in unit_kill_context}

socket_enter_stop_pre(s, f) ==
    LET s1 == set_control_command(latch_result(s, f), "StopPre")
    IN IF s1.control_command # 0
       THEN UNION {IF o.r < 0
                   THEN socket_enter_stop_post(o.s, "FailureResources")
                   ELSE {socket_set_state(o.s, "StopPre")}
                   : o \in socket_spawn(s1, s1.control_command)}
       ELSE socket_enter_stop_post(s1, "Success")

\* socket_enter_listening without the socket_watch_fds call: the fault that
\* property C7 has to reject.
socket_enter_listening_unwatched(s) == {socket_set_state(s, "Listening")}

socket_enter_listening(s) ==
    UNION {IF o.r < 0
           THEN socket_enter_stop_pre(start_step_failed(o.s), "FailureResources")
           ELSE {socket_set_state(o.s, "Listening")}
           : o \in socket_watch_fds(s)}

\* socket_enter_start_post going on to Listening when the command cannot be
\* spawned: the fault that property C8 has to reject.
socket_enter_start_post_ignores_spawn(s) ==
    LET s1 == set_control_command(s, "StartPost")
    IN IF s1.control_command # 0
       THEN UNION {IF o.r < 0
                   THEN socket_enter_listening(start_step_failed(o.s))
                   ELSE {socket_set_state(o.s, "StartPost")}
                   : o \in socket_spawn(s1, s1.control_command)}
       ELSE socket_enter_listening(s1)

socket_enter_start_post(s) ==
    LET s1 == set_control_command(s, "StartPost")
    IN IF s1.control_command # 0
       THEN UNION {IF o.r < 0
                   THEN socket_enter_stop_pre(start_step_failed(o.s), "FailureResources")
                   ELSE {socket_set_state(o.s, "StartPost")}
                   : o \in socket_spawn(s1, s1.control_command)}
       ELSE socket_enter_listening(s1)

socket_enter_start_chown(s) ==
    UNION {IF o.r < 0
           THEN socket_enter_stop_pre(start_step_failed(o.s), "FailureResources")
           ELSE IF cfg.user
           THEN LET s1 == [socket_unwatch_control_pid(o.s)
                               EXCEPT !.control_command_id = "StartChown",
                                      !.control_command = 0]
                IN UNION {IF c.r < 0
                          THEN socket_enter_stop_pre(start_step_failed(c.s),
                                                     "FailureResources")
                          ELSE {socket_set_state(c.s, "StartChown")}
                          : c \in socket_chown(s1)}
           ELSE socket_enter_start_post(o.s)
           : o \in socket_open_fds(s)}

socket_enter_start_pre(s) ==
    LET s1 == set_control_command(s, "StartPre")
    IN IF s1.control_command # 0
       THEN UNION {IF o.r < 0
                   THEN socket_enter_dead(start_step_failed(o.s), "FailureResources")
                   ELSE {socket_set_state(o.s, "StartPre")}
                   : o \in socket_spawn(s1, s1.control_command)}
       ELSE socket_enter_start_chown(s1)

\* socket_run_next without 's->control_command = ...->command_next': the
\* fault that property C27 has to reject.
socket_run_next_same_command(s) ==
    LET s1 == socket_unwatch_control_pid(s)
    IN UNION {IF o.r >= 0 THEN {o.s}
              ELSE IF o.s.state = "StartPost"
              THEN socket_enter_stop_pre(start_step_failed(o.s), "FailureResources")
              ELSE IF o.s.state = "StopPost"
              THEN socket_enter_dead(o.s, "FailureResources")
              ELSE socket_enter_signal(start_step_failed(o.s), "FinalSigterm",
                                       "FailureResources")
              : o \in socket_spawn(s1, s1.control_command)}

socket_run_next(s) ==
    LET s1 == [socket_unwatch_control_pid(s)
                   EXCEPT !.control_command =
                              command_next(s.control_command_id, s.control_command)]
    IN UNION {IF o.r >= 0 THEN {o.s}
              ELSE IF o.s.state = "StartPost"
              THEN socket_enter_stop_pre(start_step_failed(o.s), "FailureResources")
              ELSE IF o.s.state = "StopPost"
              THEN socket_enter_dead(o.s, "FailureResources")
              ELSE socket_enter_signal(start_step_failed(o.s), "FinalSigterm",
                                       "FailureResources")
              : o \in socket_spawn(s1, s1.control_command)}

(***************************************************************************)
(* Activation.                                                             *)
(***************************************************************************)
MaxConnections == 1   \* s->max_connections of the modelled unit
MaxAccepted == 2      \* connections a listen fd hands out before the model stops accepting

\* unit_stop_pending(UNIT(s)): whether a stop job is installed on the unit.
unit_stop_pending == BOOLEAN

\* Whether some triggered unit is active or has a job pending.
unit_active_or_pending == BOOLEAN

\* History only: the branch socket_enter_running takes for an accepted
\* connection.
accept_outcome(s, what) == [s EXCEPT !.g_accept = what]

\* safe_close(cfd) with cfd >= 0.
close_cfd(s) == [s EXCEPT !.conn_fd = "closed"]

\* The fail label of socket_enter_running reached with cfd >= 0:
\* socket_enter_stop_pre, then safe_close(cfd).
socket_enter_running_fail(s, what) ==
    {close_cfd(t) : t \in socket_enter_stop_pre(accept_outcome(s, what),
                                                "FailureResources")}

\* if (s->n_connections >= s->max_connections), with an off-by-one fault
\* that property C15 has to reject.
too_many_connections_above(s) == s.n_connections > MaxConnections

\* if (s->n_connections >= s->max_connections)
too_many_connections(s) == s.n_connections >= MaxConnections

\* The hand-off with n_connections counted before service_set_socket_fd has
\* taken the descriptor: the fault that property C16 has to reject.
socket_enter_running_handoff_counts_early(s) ==
    LET t1 == [s EXCEPT !.service = FALSE, !.n_accepted = @ + 1,
                        !.n_connections = @ + 1]
        t2 == [t1 EXCEPT !.conn_fd = "service"]
    IN socket_enter_running_fail(t1, "handoff_error")
       \cup socket_enter_stop_pre(accept_outcome(t2, "job_error"), "FailureResources")
       \cup {accept_outcome(t2, "accepted")}

\* The hand-off of an accepted connection: unit_ref_unset, n_accepted++,
\* service_set_socket_fd, cfd = -1, n_connections++, manager_add_job.
socket_enter_running_handoff(s) ==
    LET t1 == [s EXCEPT !.service = FALSE, !.n_accepted = @ + 1]
        t2 == [t1 EXCEPT !.conn_fd = "service", !.n_connections = @ + 1]
    IN socket_enter_running_fail(t1, "handoff_error")          \* service_set_socket_fd
       \cup socket_enter_stop_pre(accept_outcome(t2, "job_error"),
                                  "FailureResources")           \* manager_add_job
       \cup {accept_outcome(t2, "accepted")}

\* The naming of the connection's service with ENOTCONN treated like any
\* other error: the fault that property C17 has to reject.
socket_enter_running_name_strict(s) ==
    socket_enter_running_fail(s, "enotconn")
    \cup socket_enter_running_fail(s, "naming_error")
    \cup socket_enter_running_handoff(s)

\* instance_from_socket, unit_name_to_prefix, unit_name_build, unit_add_name.
socket_enter_running_name(s) ==
    {close_cfd(accept_outcome(s, "enotconn"))}           \* -ENOTCONN: dropped
    \cup socket_enter_running_fail(s, "naming_error")    \* any other error
    \cup socket_enter_running_handoff(s)

\* The trigger branch of socket_enter_running with the test of 'pending'
\* left out: the fault that property C31 has to reject.
socket_enter_running_trigger_always(s, pending) ==
    LET fail(t) == socket_enter_stop_pre(t, "FailureResources")
    IN IF ~s.service THEN fail(s)
       ELSE fail(s) \cup {socket_set_state(accept_outcome(s, "job_queued"), "Running")}

\* The branch of socket_enter_running for cfd < 0 with no stop pending;
\* 'pending' says whether some triggered unit is active or has a job
\* pending.  History only: g_accept = "job_queued" once manager_add_job has
\* queued the start job, "already_pending" when it was not called.
socket_enter_running_trigger(s, pending) ==
    LET fail(t) == socket_enter_stop_pre(t, "FailureResources")
    IN IF pending THEN {socket_set_state(accept_outcome(s, "already_pending"), "Running")}
       ELSE IF ~s.service THEN fail(s)
       ELSE fail(s)                                              \* manager_add_job
            \cup {socket_set_state(accept_outcome(s, "job_queued"), "Running")}

\* The branch of socket_enter_running for cfd < 0 with a stop pending:
\* socket_close_fds, then socket_watch_fds.
socket_enter_running_flush(s) ==
    UNION {IF o.r < 0 THEN socket_enter_stop_pre(o.s, "FailureResources") ELSE {o.s}
           : o \in socket_watch_fds(socket_close_fds(s))}

\* The branch of socket_enter_running for an accepted connection (cfd >= 0)
\* with no stop pending.
socket_enter_running_accept(s) ==
    IF too_many_connections(s)
    THEN {close_cfd(accept_outcome(s, "refused"))}
    ELSE UNION {IF i.r < 0
                THEN socket_enter_running_fail(i.s, "instantiate_error")
                ELSE socket_enter_running_name(i.s)
                : i \in socket_instantiate_service(s)}

\* socket_enter_running for given answers of unit_stop_pending and of
\* unit_active_or_pending.
socket_enter_running_on(s, cfd, stop, pending) ==
    IF stop
    THEN (IF cfd >= 0 THEN {close_cfd(accept_outcome(s, "stop_pending"))}
          ELSE socket_enter_running_flush(s))
    ELSE IF cfd < 0 THEN socket_enter_running_trigger(s, pending)
    ELSE socket_enter_running_accept(s)

socket_enter_running(s, cfd) ==
    UNION {socket_enter_running_on(s, cfd, stop, pending)
           : stop \in unit_stop_pending, pending \in unit_active_or_pending}

(***************************************************************************)
(* The handlers the manager calls.                                         *)
(***************************************************************************)
\* socket_start without the -EAGAIN refusal in the stop states: the fault
\* that property C9 has to reject.
socket_start_while_stopping(s) ==
    IF s.state \in StartStates THEN {Ret(s, 0)}
    ELSE (IF s.service THEN {Ret(s, -1)} ELSE {})
         \cup {Ret(t, 0) : t \in socket_enter_start_pre(
                   [s EXCEPT !.result = "Success",
                             !.g_start_failed = FALSE,
                             !.g_interrupted = "none",
                             !.g_pending = TRUE])}

\* socket_start without 's->result = SOCKET_SUCCESS': the fault that
\* property C23 has to reject.
socket_start_keeps_result(s) ==
    IF s.state \in StopStates THEN {Ret(s, -1)}
    ELSE IF s.state \in StartStates THEN {Ret(s, 0)}
    ELSE (IF s.service THEN {Ret(s, -1)} ELSE {})
         \cup {Ret(t, 0) : t \in socket_enter_start_pre(
                   [s EXCEPT !.g_start_failed = FALSE,
                             !.g_interrupted = "none",
                             !.g_pending = TRUE])}

socket_start(s) ==
    IF s.state \in StopStates THEN {Ret(s, -1)}                  \* -EAGAIN
    ELSE IF s.state \in StartStates THEN {Ret(s, 0)}
    ELSE (IF s.service THEN {Ret(s, -1)} ELSE {})                \* -ENOENT, -EBUSY
         \cup {Ret(t, 0) : t \in socket_enter_start_pre(
                   [s EXCEPT !.result = "Success",
                             !.g_start_failed = FALSE,
                             !.g_interrupted = "none",
                             !.g_pending = TRUE])}

\* socket_stop that runs the ordinary stop path while a start is in flight:
\* the fault that property C24 has to reject.
socket_stop_never_signals(s) ==
    IF s.state \in StopStates THEN {Ret(s, 0)}
    ELSE IF s.state \in StartStates
    THEN {Ret(t, -1) : t \in socket_enter_stop_pre(s, "Success")}
    ELSE {Ret(t, 0) : t \in socket_enter_stop_pre(s, "Success")}

socket_stop(s) ==
    IF s.state \in StopStates THEN {Ret(s, 0)}
    ELSE IF s.state \in StartStates
    THEN {Ret(t, -1) : t \in socket_enter_signal(s, "StopPreSigterm", "Success")}
    ELSE {Ret(t, 0) : t \in socket_enter_stop_pre(s, "Success")}

\* The ways a child can end, as is_clean_exit and si_code classify them.
ExitCodes == {"clean", "CLD_EXITED", "CLD_KILLED", "CLD_DUMPED"}

exit_result(code) ==
    CASE code = "clean" -> "Success"
      [] code = "CLD_EXITED" -> "FailureExitCode"
      [] code = "CLD_KILLED" -> "FailureSignal"
      [] code = "CLD_DUMPED" -> "FailureCoreDump"

\* assert_not_reached: the process aborts.
Aborted(s) == [s EXCEPT !.state = "Aborted"]

socket_sigchld_event(s, pid, code) ==
    IF pid # s.control_pid THEN {s}
    ELSE
    LET f == IF s.control_command # 0 /\ cfg.ignore THEN "Success"
             ELSE exit_result(code)
        s0 == latch_result([s EXCEPT !.control_pid = 0], f)
        s1 == IF f # "Success" THEN start_step_failed(s0) ELSE s0
        s2 == [s1 EXCEPT !.control_command = 0, !.control_command_id = "Invalid"]
    IN IF s1.control_command # 0
          /\ command_next(s1.control_command_id, s1.control_command) # 0
          /\ f = "Success"
       THEN socket_run_next(s1)
       ELSE CASE s2.state = "StartPre" ->
                     IF f = "Success" THEN socket_enter_start_chown(s2)
                     ELSE socket_enter_signal(s2, "FinalSigterm", f)
              [] s2.state = "StartChown" ->
                     IF f = "Success" THEN socket_enter_start_post(s2)
                     ELSE socket_enter_stop_pre(s2, f)
              [] s2.state = "StartPost" ->
                     IF f = "Success" THEN socket_enter_listening(s2)
                     ELSE socket_enter_stop_pre(s2, f)
              [] s2.state \in {"StopPre", "StopPreSigterm", "StopPreSigkill"} ->
                     socket_enter_stop_post(s2, f)
              [] s2.state \in {"StopPost", "FinalSigterm", "FinalSigkill"} ->
                     socket_enter_dead(s2, f)
              [] OTHER -> {Aborted(s2)}

socket_timer_event(s) ==
    LET t == start_step_failed(s)
    IN CASE s.state = "StartPre" ->
                socket_enter_signal(t, "FinalSigterm", "FailureTimeout")
         [] s.state \in {"StartChown", "StartPost"} ->
                socket_enter_stop_pre(t, "FailureTimeout")
         [] s.state = "StopPre" ->
                socket_enter_signal(s, "StopPreSigterm", "FailureTimeout")
         [] s.state = "StopPreSigterm" ->
                IF cfg.send_sigkill
                THEN socket_enter_signal(s, "StopPreSigkill", "FailureTimeout")
                ELSE socket_enter_stop_post(s, "FailureTimeout")
         [] s.state = "StopPreSigkill" ->
                socket_enter_stop_post(s, "FailureTimeout")
         [] s.state = "StopPost" ->
                socket_enter_signal(s, "FinalSigterm", "FailureTimeout")
         [] s.state = "FinalSigterm" ->
                IF cfg.send_sigkill
                THEN socket_enter_signal(s, "FinalSigkill", "FailureTimeout")
                ELSE socket_enter_dead(s, "FailureTimeout")
         [] s.state = "FinalSigkill" ->
                socket_enter_dead(s, "FailureTimeout")
         [] OTHER -> {Aborted(s)}

\* socket_fd_event without the test of revents: the fault that property
\* C30 has to reject.
socket_fd_event_any_flags(s, revents) ==
    IF s.state # "Listening" THEN {s}
    ELSE socket_enter_running(s, -1)

socket_fd_event(s, revents) ==
    IF s.state # "Listening" THEN {s}
    ELSE IF revents # "EV_READ" THEN socket_enter_stop_pre(s, "FailureResources")
    ELSE socket_enter_running(s, -1)      \* the accept loop is compiled out: cfd = -1

socket_notify_service_dead(s, failed_permanent) ==
    IF s.state = "Running"
    THEN IF failed_permanent
         THEN socket_enter_stop_pre(s, "FailureServicePermanent")
         ELSE socket_enter_listening(s)
    ELSE {s}

\* What socket_trigger_notify reads of the other unit: whether it is a loaded
\* service, and the state of the service ("failed-start-limit" is
\* SERVICE_FAILED with result SERVICE_FAILURE_START_LIMIT, "dead" stands for
\* SERVICE_DEAD, the stop states and SERVICE_AUTO_RESTART).
ServiceStates == {"failed-start-limit", "failed", "dead", "running", "start"}

OtherUnits ==
    {[loaded |-> FALSE, state |-> "dead"]}
    \cup {[loaded |-> TRUE, state |-> x] : x \in ServiceStates}

\* socket_trigger_notify without the test of s->accept: the fault that
\* property C33 has to reject.
socket_trigger_notify_accepting(s, other) ==
    IF s.state # "Running" /\ s.state # "Listening" THEN {s}
    ELSE IF ~other.loaded THEN {s}
    ELSE CASE other.state \in {"failed-start-limit", "failed"} ->
                  socket_notify_service_dead(s, other.state = "failed-start-limit")
           [] other.state = "dead" -> socket_notify_service_dead(s, FALSE)
           [] other.state = "running" -> {socket_set_state(s, "Running")}
           [] OTHER -> {s}

socket_trigger_notify(s, other) ==
    IF (s.state # "Running" /\ s.state # "Listening") \/ cfg.accept THEN {s}
    ELSE IF ~other.loaded THEN {s}
    ELSE CASE other.state \in {"failed-start-limit", "failed"} ->
                  socket_notify_service_dead(s, other.state = "failed-start-limit")
           [] other.state = "dead" -> socket_notify_service_dead(s, FALSE)
           [] other.state = "running" -> {socket_set_state(s, "Running")}
           [] OTHER -> {s}

socket_connection_unref(s) == [s EXCEPT !.n_connections = @ - 1]

\* socket_reset_failed without the test of the state: the fault that
\* property C39 has to reject.
socket_reset_failed_any_state(s) ==
    [socket_set_state(s, "Dead") EXCEPT !.result = "Success"]

socket_reset_failed(s) ==
    LET s1 == IF s.state = "Failed" THEN socket_set_state(s, "Dead") ELSE s
    IN [s1 EXCEPT !.result = "Success"]

(***************************************************************************)
(* The state machine.                                                      *)
(***************************************************************************)
\* A unit after socket_init and a successful load: for Accept=no the
\* service is resolved at load time, for Accept=yes it is minted on demand.
InitUnit(c) ==
    [state |-> "Dead",
     result |-> "Success",
     fd |-> [p \in Ports |-> -1],
     watched |-> [p \in Ports |-> FALSE],
     timer |-> FALSE,
     control_pid |-> 0,
     pid_watch |-> {},
     children |-> {},
     control_command |-> 0,
     control_command_id |-> "Invalid",
     n_accepted |-> 0,
     n_connections |-> 0,
     service |-> ~c.accept,
     conn_fd |-> "none",
     g_accept |-> "none",
     g_start_failed |-> FALSE,
     g_pending |-> FALSE,
     g_interrupted |-> "none",
     g_prev |-> "Dead"]

Init ==
    /\ cfg \in Configs
    /\ unit = InitUnit(cfg)

\* History only, set when a handler is entered: g_prev is the state the
\* handler starts in; g_pending says that no quiescent state has been reached
\* since the last accepted start request (socket_start sets it), so that a
\* quiescent state with g_pending is the first one that start reaches.
Begin(u) ==
    [u EXCEPT !.g_prev = u.state,
              !.conn_fd = "none",
              !.g_accept = "none",
              !.g_pending = @ /\ u.state \notin QuiescentStates,
              !.g_interrupted = IF u.state \in QuiescentStates THEN "none" ELSE @]

\* History only: what has been handled before the pending start request
\* reached its first quiescent state: "reset" if a reset-failed was, else
\* "stop" if a stop request was, else "none".
Interrupt(u, kind) ==
    IF ~u.g_pending \/ u.g_interrupted = "reset" THEN u
    ELSE [u EXCEPT !.g_interrupted = kind]

\* unit_start calls the handler unless the unit is active already.
Start ==
    /\ unit.state \notin {"Listening", "Running"}
    /\ \E o \in socket_start(Begin(unit)) : unit' = o.s
    /\ UNCHANGED cfg

\* unit_stop calls the handler unless the unit is inactive or failed.
Stop ==
    /\ unit.state \notin {"Dead", "Failed"}
    /\ \E o \in socket_stop(Interrupt(Begin(unit), "stop")) : unit' = o.s
    /\ UNCHANGED cfg

\* A child of the unit ends.  The manager drops the pid's watch and calls
\* the handler of the unit that watched it.
SigchldEvent ==
    /\ \E pid \in unit.children :
           LET s0 == [Begin(unit) EXCEPT !.children = @ \ {pid},
                                         !.pid_watch = @ \ {pid}]
           IN IF pid \in unit.pid_watch
              THEN \E code \in ExitCodes :
                       \E t \in socket_sigchld_event(s0, pid, code) : unit' = t
              ELSE unit' = s0
    /\ UNCHANGED cfg

\* The one-shot timer expires.
TimerEvent ==
    /\ unit.timer
    /\ \E t \in socket_timer_event([Begin(unit) EXCEPT !.timer = FALSE]) : unit' = t
    /\ UNCHANGED cfg

\* An event on the descriptor of an open endpoint.
FdEvent ==
    /\ \E p \in Ports, revents \in {"EV_READ", "EV_ERROR"} :
           /\ unit.fd[p] >= 0
           /\ \E t \in socket_fd_event(Begin(unit), revents) : unit' = t
    /\ UNCHANGED cfg

TriggerNotify ==
    /\ \E other \in OtherUnits :
           \E t \in socket_trigger_notify(Begin(unit), other) : unit' = t
    /\ UNCHANGED cfg

ResetFailed ==
    /\ unit' = socket_reset_failed(Interrupt(Begin(unit), "reset"))
    /\ UNCHANGED cfg

Next ==
    \/ Start
    \/ Stop
    \/ SigchldEvent
    \/ TimerEvent
    \/ FdEvent
    \/ TriggerNotify
    \/ ResetFailed

Spec == Init /\ [][Next]_vars

TypeOK ==
    /\ unit.state \in SocketState
    /\ unit.result \in SocketResult
    /\ unit.control_pid \in {0} \cup Pids
    /\ unit.pid_watch \subseteq unit.children

(***************************************************************************)
(* Specifications with fairness, for the progress properties.  They run    *)
(* the same actions on the configurations of LiveConfigs: a unit with      *)
(* User/Group set and an ExecStartPost list, so that every transient state *)
(* is reached, with and without ExecStartPre, ExecStopPre, ExecStopPost    *)
(* and SendSIGKILL.                                                        *)
(***************************************************************************)
LiveConfigs ==
    {c \in Configs : /\ ~c.accept
                     /\ ~c.ignore
                     /\ c.user
                     /\ c.ncmd["StartPost"] = MaxCmds}

InitLive ==
    /\ cfg \in LiveConfigs
    /\ unit = InitUnit(cfg)

\* An armed timer eventually fires or a living child eventually exits.
SpecFair == InitLive /\ [][Next]_vars /\ WF_vars(TimerEvent \/ SigchldEvent)

\* An armed timer eventually fires; a child may run forever.
SpecTimer == InitLive /\ [][Next]_vars /\ WF_vars(TimerEvent)

(***************************************************************************)
(* The accept loop.  socket_fd_event as built passes cfd = -1 to           *)
(* socket_enter_running: the block that calls accept4 is inside "#if 0".   *)
(* SpecAccept runs the unit with that block enabled, so that the branch    *)
(* of socket_enter_running for an accepted connection (cfd >= 0) is        *)
(* exercised; Spec, SpecFair and SpecTimer are the unit as built.          *)
(***************************************************************************)
\* socket_fd_event with the accept4 block enabled, for a watch with
\* socket_accept set.
socket_fd_event_accept(s, revents) ==
    IF s.state # "Listening" THEN {s}
    ELSE IF revents # "EV_READ" THEN socket_enter_stop_pre(s, "FailureResources")
    ELSE socket_enter_stop_pre(s, "FailureResources")          \* accept4 fails
         \cup socket_enter_running([s EXCEPT !.conn_fd = "open"],
                                   OpenFd(NumPorts + 1))

\* An event on the listen fd of an accepting socket.
AcceptEvent ==
    /\ cfg.accept
    /\ unit.n_accepted < MaxAccepted
    /\ \E p \in Ports, revents \in {"EV_READ", "EV_ERROR"} :
           /\ unit.fd[p] >= 0
           /\ cfg.ptype[p] = "Socket"
           /\ \E t \in socket_fd_event_accept(Begin(unit), revents) : unit' = t
    /\ UNCHANGED cfg

\* A per-connection service that holds a connection of the unit goes away.
ConnectionUnref ==
    /\ unit.n_connections > 0
    /\ unit' = socket_connection_unref(Begin(unit))
    /\ UNCHANGED cfg

AcceptConfigs ==
    {c \in Configs : /\ c.accept
                     /\ ~c.ignore
                     /\ ~c.user
                     /\ c.ncmd["StartPre"] = 0
                     /\ c.ncmd["StartPost"] = 0}

InitAccept ==
    /\ cfg \in AcceptConfigs
    /\ unit = InitUnit(cfg)

NextAccept ==
    \/ Start
    \/ Stop
    \/ SigchldEvent
    \/ TimerEvent
    \/ AcceptEvent
    \/ ConnectionUnref
    \/ ResetFailed

SpecAccept == InitAccept /\ [][NextAccept]_vars

(***************************************************************************)
(* Properties.                                                             *)
(***************************************************************************)
AllClosed == \A p \in Ports : unit.fd[p] = -1
AllOpen == \A p \in Ports : unit.fd[p] >= 0
AllWatched == \A p \in Ports : unit.watched[p]

\* C1: whenever the state is Dead, StartPre, StopPost, FinalSigterm,
\* FinalSigkill or Failed, every endpoint's fd is closed (-1).
C1_ClosedStates ==
    unit.state \in {"Dead", "StartPre", "StopPost", "FinalSigterm",
                    "FinalSigkill", "Failed"} => AllClosed

\* C1, witness: StopPost entered from StopPre, whose open endpoints the
\* transition has closed.
C1_Witness ==
    /\ unit.state = "StopPost"
    /\ unit.g_prev = "StopPre"
    /\ unit.control_pid # 0
    /\ AllClosed

\* C2: whenever the state is StartChown, StartPost, Listening, Running,
\* StopPre, StopPreSigterm or StopPreSigkill, every endpoint is open
\* (fd >= 0).  The code does not keep it.
C2_OpenStates == unit.state \in OpenStates => AllOpen

\* C3: the timer is armed if and only if the state is one of StartPre,
\* StartChown, StartPost, StopPre, StopPreSigterm, StopPreSigkill, StopPost,
\* FinalSigterm, FinalSigkill.  The code does not keep it.
C3_TimerIffTransient == unit.timer <=> unit.state \in TransientStates

\* C4: first failing result wins: within one run (the unit is not in Dead
\* or Failed, where only a new start request or reset-failed acts), a result
\* that is a failure is not replaced by another failure.  The code does not
\* keep it.
C4_FirstFailureWins ==
    [][(/\ unit.state \notin {"Dead", "Failed"}
        /\ unit.result # "Success"
        /\ unit'.result # "Success") => unit'.result = unit.result]_vars

\* C5: a stop sequence terminates: from every stop state the unit
\* eventually reaches Dead or Failed, given that an armed timer eventually
\* fires or the control child eventually exits.
C5_StopTerminates ==
    (unit.state \in StopStates) ~> (unit.state \in {"Dead", "Failed"})

\* C5, witness: a stop sequence that ends in Failed from StopPre in one
\* step, the ExecStopPost command having failed to spawn and the final
\* signalling having failed or found nothing to wait for.
C5_Witness ==
    /\ unit.g_prev = "StopPre"
    /\ unit.state = "Failed"
    /\ unit.result = "FailureResources"
    /\ cfg.ncmd["StopPost"] > 0

\* C6: no transient state lasts forever: from every transient state the unit
\* eventually reaches Listening, Dead or Failed, given only that an armed
\* timer eventually fires.  The code does not keep it.
C6_NoTransientForever ==
    (unit.state \in TransientStates)
        ~> (unit.state \in {"Listening", "Dead", "Failed"})

\* C7 as stated: the first quiescent state a start request reaches is
\* Listening (or Running for a non-accepting socket) with every endpoint
\* open and watched, or Failed with every endpoint closed.
C7_StartOutcome ==
    (unit.g_pending /\ unit.state \in QuiescentStates) =>
        \/ /\ unit.state = "Listening" \/ (unit.state = "Running" /\ ~cfg.accept)
           /\ AllOpen
           /\ AllWatched
        \/ unit.state = "Failed" /\ AllClosed

\* C7, amended: the first quiescent state a start request reaches is
\* Listening with every endpoint open and watched, or Failed with every
\* endpoint closed, or, only if a stop request or a reset-failed was handled
\* in between, Dead with every endpoint closed.
C7_StartOutcomeAmended ==
    (unit.g_pending /\ unit.state \in QuiescentStates) =>
        \/ unit.state = "Listening" /\ AllOpen /\ AllWatched
        \/ unit.state = "Failed" /\ AllClosed
        \/ unit.state = "Dead" /\ AllClosed /\ unit.g_interrupted # "none"

\* C7, witness: a start request has reached Listening through StartPost.
C7_Witness ==
    /\ unit.g_pending
    /\ unit.state = "Listening"
    /\ unit.g_prev = "StartPost"
    /\ AllOpen
    /\ AllWatched

C9_StopNeverReturns ==
    [][unit.state \in StopStates =>
           unit'.state \in StopStates \cup {"Dead", "Failed"}]_vars

\* C9, witness: a step failure inside the stop sequence (ExecStopPost could
\* not be spawned when StopPre ended) has moved the unit on to FinalSigterm.
C9_Witness ==
    /\ unit.g_prev = "StopPre"
    /\ unit.state = "FinalSigterm"
    /\ unit.result = "FailureResources"
    /\ cfg.ncmd["StopPost"] > 0

\* C10: an endpoint's fd is watched if and only if the state is Listening
\* and the endpoint is open.
C10_WatchedIffListening ==
    \A p \in Ports :
        unit.watched[p] <=> (unit.state = "Listening" /\ unit.fd[p] >= 0)

\* C10, witness: Running entered from Listening, the endpoints open and
\* their watches removed.
C10_Witness ==
    /\ unit.state = "Running"
    /\ unit.g_prev = "Listening"
    /\ AllOpen
    /\ \A p \in Ports : ~unit.watched[p]

\* C11: at most one control child of the unit is alive, control_pid > 0 if
\* and only if a pid watch is registered for it, every living helper is the
\* one recorded in control_pid, and no watch remains for another pid.  The
\* code does not keep it.
C11_ControlChild ==
    /\ Cardinality(unit.children) <= 1
    /\ unit.control_pid > 0 <=> unit.control_pid \in unit.pid_watch
    /\ unit.children \subseteq {unit.control_pid}
    /\ unit.pid_watch \subseteq {unit.control_pid}

\* C12: when the unit has exited to Dead (socket_enter_dead, with any result
\* argument), its state is Failed if and only if the latched result is not
\* Success, and Dead otherwise.
C12_DeadOrFailed ==
    unit.state \in {"Dead", "Failed"} =>
        (unit.state = "Failed" <=> unit.result # "Success")

\* C12, witness: socket_enter_dead was called with Success in FinalSigterm
\* (the signalled processes are gone) while an earlier failure was latched,
\* and has entered Failed.
C12_Witness ==
    /\ unit.g_prev = "FinalSigterm"
    /\ unit.state = "Failed"
    /\ unit.result = "FailureExitCode"

\* The unit is in FinalSigterm or FinalSigkill because the timer fired in
\* StartPre while the ExecStartPre command was running: only socket_timer_event
\* enters these states with control_command_id still StartPre.
StartPreTimedOut ==
    /\ unit.state \in {"FinalSigterm", "FinalSigkill"}
    /\ unit.control_command_id = "StartPre"
    /\ unit.result = "FailureTimeout"

\* C13: a timeout in StartPre sends the unit to FinalSigterm with result
\* FailureTimeout, and from there every step that is not a reset-failed
\* keeps result = FailureTimeout and leads to FinalSigterm, FinalSigkill or
\* Failed, whichever way the killed control child exits.  The code does not
\* keep it.
C13_StartTimeout ==
    [][/\ (unit.state = "StartPre" /\ unit'.result = "FailureTimeout")
            => unit'.state \in {"FinalSigterm", "Failed"}
       /\ (StartPreTimedOut /\ unit'.result # "Success")
            => /\ unit'.result = "FailureTimeout"
               /\ unit'.state \in {"FinalSigterm", "FinalSigkill", "Failed"}]_vars

\* C14: socket_open_fds is all-or-nothing.  socket_enter_start_chown is where
\* it is called, with every endpoint closed; when a step of that function
\* fails the unit goes to StopPre at once, from Dead, Failed or StartPre.
\* There either socket_open_fds has failed and every endpoint is closed
\* again, or it has succeeded and every endpoint is open: never some open
\* and some closed.  The code does not keep it.
C14_OpenAllOrNothing ==
    (/\ unit.state = "StopPre"
     /\ unit.g_prev \in {"Dead", "Failed", "StartPre"}
     /\ unit.g_start_failed) => (AllOpen \/ AllClosed)

\* C15: for an accepting socket n_connections stays within
\* 0..max_connections; an arrival while n_connections = max_connections is
\* refused (or dropped because a stop is pending), and a refusal closes the
\* accepted fd and leaves n_connections, n_accepted, the service reference,
\* the result and the state Listening as they were.
C15_ConnectionLimit ==
    [][/\ unit'.n_connections \in 0..MaxConnections
       /\ (unit.n_connections = MaxConnections /\ unit'.g_accept # "none")
              => unit'.g_accept \in {"refused", "stop_pending"}
       /\ unit'.g_accept = "refused"
              => /\ unit.n_connections = MaxConnections
                 /\ unit'.conn_fd = "closed"
                 /\ unit'.n_connections = unit.n_connections
                 /\ unit'.n_accepted = unit.n_accepted
                 /\ unit'.service = unit.service
                 /\ unit'.result = unit.result
                 /\ unit.state = "Listening"
                 /\ unit'.state = "Listening"]_vars

\* C15, witness: a connection has arrived while max_connections connections
\* were live, and has been refused.
C15_Witness ==
    /\ unit.g_accept = "refused"
    /\ unit.n_connections = MaxConnections
    /\ unit.n_accepted > 0
    /\ unit.conn_fd = "closed"
    /\ unit.state = "Listening"

\* C16: for every accepted connection n_connections is incremented if and
\* only if the accepted fd has become the service's; otherwise n_connections
\* is unchanged and the socket unit has closed the fd.  The fd is never left
\* open without an owner.
C16_HandoffCounted ==
    [][unit'.g_accept # "none" =>
           /\ unit'.conn_fd \in {"closed", "service"}
           /\ unit'.conn_fd = "service"
                  => unit'.n_connections = unit.n_connections + 1
           /\ unit'.conn_fd = "closed"
                  => unit'.n_connections = unit.n_connections]_vars

\* C16, witness: service_set_socket_fd has failed after the service was
\* named: the fd is closed by the socket unit and n_connections is 0.
C16_Witness ==
    /\ unit.g_accept = "handoff_error"
    /\ unit.conn_fd = "closed"
    /\ unit.n_connections = 0
    /\ unit.n_accepted = 1

\* C17: when naming the connection fails with ENOTCONN the connection is
\* dropped: its fd is closed, n_accepted, n_connections and the result are
\* unchanged and the unit stays in Listening; any other naming error closes
\* the fd and starts the stop path (socket_enter_stop_pre) with result
\* FailureResources.
C17_NotConnected ==
    [][/\ unit'.g_accept = "enotconn"
              => /\ unit'.conn_fd = "closed"
                 /\ unit'.n_accepted = unit.n_accepted
                 /\ unit'.n_connections = unit.n_connections
                 /\ unit'.result = unit.result
                 /\ unit'.state = "Listening"
       /\ unit'.g_accept = "naming_error"
              => /\ unit'.conn_fd = "closed"
                 /\ unit'.result = "FailureResources"
                 /\ unit'.state \in StopStates \cup {"Failed"}]_vars

\* C17, witness: a connection was dropped with ENOTCONN in Listening.
C17_Witness ==
    /\ unit.g_accept = "enotconn"
    /\ unit.conn_fd = "closed"
    /\ unit.state = "Listening"
    /\ unit.result = "Success"

\* C18: an accepting socket (Accept=true) is never in state Running.  The
\* unit as built does not keep it.
C18_AcceptNeverRunning == cfg.accept => unit.state # "Running"

(***************************************************************************)
(* Serialization across a reload.  The manager serializes every unit,      *)
(* frees it, loads it again from its unit file and feeds the serialized    *)
(* items to socket_deserialize_item, then calls socket_coldplug.  A value  *)
(* of fd names the open file an endpoint holds; fdset_put_dup hands back   *)
(* another descriptor of the same open file.                               *)
(***************************************************************************)
socket_state_table ==
    ("Dead" :> "dead") @@ ("StartPre" :> "start-pre")
    @@ ("StartChown" :> "start-chown") @@ ("StartPost" :> "start-post")
    @@ ("Listening" :> "listening") @@ ("Running" :> "running")
    @@ ("StopPre" :> "stop-pre") @@ ("StopPreSigterm" :> "stop-pre-sigterm")
    @@ ("StopPreSigkill" :> "stop-pre-sigkill") @@ ("StopPost" :> "stop-post")
    @@ ("FinalSigterm" :> "final-sigterm") @@ ("FinalSigkill" :> "final-sigkill")
    @@ ("Failed" :> "failed")

socket_exec_command_table ==
    ("StartPre" :> "StartPre") @@ ("StartChown" :> "StartChown")
    @@ ("StartPost" :> "StartPost") @@ ("StopPre" :> "StopPre")
    @@ ("StopPost" :> "StopPost")

socket_result_table ==
    ("Success" :> "success") @@ ("FailureResources" :> "resources")
    @@ ("FailureTimeout" :> "timeout") @@ ("FailureExitCode" :> "exit-code")
    @@ ("FailureSignal" :> "signal") @@ ("FailureCoreDump" :> "core-dump")
    @@ ("FailureServicePermanent" :> "service-failed-permanent")

\* DEFINE_STRING_TABLE_LOOKUP: x_to_string and x_from_string ("Invalid" is -1).
string_table_lookup_from_string(table, v) ==
    IF \E x \in DOMAIN table : table[x] = v
    THEN CHOOSE x \in DOMAIN table : table[x] = v
    ELSE "Invalid"

\* p->address of a socket endpoint and p->path of the others: the endpoints
\* of the list differ in them; 0 is the unused field.
port_address(p) == IF cfg.ptype[p] = "Socket" THEN p ELSE 0
port_path(p) == IF cfg.ptype[p] = "Socket" THEN 0 ELSE p

\* The items of the endpoints from p on, and the FDSet the copies go to.
RECURSIVE serialize_from(_, _, _)
serialize_from(s, p, out) ==
    IF p > NumPorts THEN {Ret(out, 0)}
    ELSE IF s.fd[p] < 0 THEN serialize_from(s, p + 1, out)
    ELSE LET copy == s.fd[p]
             item == IF cfg.ptype[p] = "Socket"
                     THEN <<"socket", <<copy, port_address(p)>>>>
                     ELSE <<"fifo", <<copy, port_path(p)>>>>
         IN {Ret(out, -1)}                                  \* fdset_put_dup fails
            \cup serialize_from(s, p + 1,
                                [f |-> Append(out.f, item),
                                 fds |-> out.fds \cup {copy}])

socket_serialize(s) ==
    serialize_from(s, 1,
        [f |-> <<<<"state", socket_state_table[s.state]>>,
                 <<"result", socket_result_table[s.result]>>,
                 <<"n-accepted", s.n_accepted>>>>
               \o (IF s.control_pid > 0
                   THEN <<<<"control-pid", s.control_pid>>>> ELSE <<>>)
               \o (IF s.control_command_id # "Invalid"
                   THEN <<<<"control-command",
                            socket_exec_command_table[s.control_command_id]>>>>
                   ELSE <<>>),
         fds |-> {}])

\* The first endpoint of the list among those an item matches, 0 if none does.
first_port(matching) ==
    IF matching # {}
    THEN CHOOSE q \in matching : \A r \in matching : q <= r
    ELSE 0

\* d is the unit being filled, its deserialized_state and the FDSet.
socket_deserialize_item(d, key, value) ==
    LET take(q, fd) ==
            IF q = 0 THEN d
            ELSE [d EXCEPT !.s.fd[q] = fd, !.s.watched[q] = FALSE,
                           !.fds = @ \ {fd}]
    IN CASE key = "state" ->
                LET state == string_table_lookup_from_string(socket_state_table, value)
                IN IF state = "Invalid" THEN d
                   ELSE [d EXCEPT !.deserialized_state = state]
         [] key = "result" ->
                LET f == string_table_lookup_from_string(socket_result_table, value)
                IN IF f = "Invalid" THEN d
                   ELSE [d EXCEPT !.s = latch_result(d.s, f)]
         [] key = "n-accepted" -> [d EXCEPT !.s.n_accepted = @ + value]
         [] key = "control-pid" ->
                IF value <= 0 THEN d ELSE [d EXCEPT !.s.control_pid = value]
         [] key = "control-command" ->
                LET id == string_table_lookup_from_string(socket_exec_command_table, value)
                IN IF id = "Invalid" THEN d
                   ELSE [d EXCEPT !.s.control_command_id = id,
                                  !.s.control_command = exec_command(id)]
         [] key = "fifo" ->
                IF value[1] < 0 \/ value[1] \notin d.fds THEN d
                ELSE take(first_port({q \in Ports : cfg.ptype[q] = "Fifo"
                                                    /\ port_path(q) = value[2]}),
                          value[1])
         [] key = "socket" ->
                IF value[1] < 0 \/ value[1] \notin d.fds THEN d
                ELSE take(first_port({q \in Ports : port_address(q) = value[2]}),
                          value[1])
         [] OTHER -> d

RECURSIVE deserialize_from(_, _, _)
deserialize_from(d, f, i) ==
    IF i > Len(f) THEN d
    ELSE deserialize_from(socket_deserialize_item(d, f[i][1], f[i][2]), f, i + 1)

socket_coldplug(s, deserialized_state) ==
    IF deserialized_state = s.state THEN {Ret(s, 0)}
    ELSE LET watch ==
                 IF deserialized_state \notin TransientStates THEN {Ret(s, 0)}
                 ELSE IF s.control_pid <= 0 THEN {Ret(s, -1)}       \* -EBADMSG
                 ELSE LET s1 == [s EXCEPT !.pid_watch = @ \cup {s.control_pid}]
                      IN {Ret(s, -1), Ret(s1, -1),
                          Ret([s1 EXCEPT !.timer = TRUE], 0)}
             open ==
                 UNION {IF w.r < 0 \/ deserialized_state \notin OpenStates
                        THEN {w} ELSE socket_open_fds(w.s) : w \in watch}
             listen ==
                 UNION {IF o.r < 0 \/ deserialized_state # "Listening"
                        THEN {o} ELSE socket_watch_fds(o.s) : o \in open}
         IN {IF l.r < 0 THEN l ELSE Ret(socket_set_state(l.s, deserialized_state), 0) :
                 l \in listen}

\* The unit as the manager has it after the unit file is loaded again:
\* the children of the old unit live on, none of them is watched.
socket_load(s) ==
    [InitUnit(cfg) EXCEPT !.children = s.children, !.g_prev = s.g_prev]

\* serialize, load and deserialize of the unit s: the freshly loaded unit
\* with the items of a serialization that succeeded fed to
\* socket_deserialize_item, its deserialized_state and what is left of the
\* FDSet.
manager_deserialize(s) ==
    {deserialize_from([s |-> socket_load(s),
                       deserialized_state |-> "Dead",
                       fds |-> o.s.fds],
                      o.s.f, 1) :
         o \in {x \in socket_serialize(s) : x.r = 0}}

\* serialize, load, deserialize and coldplug of the unit s: the outcomes of
\* socket_coldplug after a serialization that succeeded.
manager_reload(s) ==
    UNION {socket_coldplug(d.s, d.deserialized_state) : d \in manager_deserialize(s)}

\* A reload of the manager (it runs unless the manager has aborted).
Reload ==
    /\ unit.state \in SocketState
    /\ \E o \in manager_reload(Begin(unit)) : unit' = o.s
    /\ UNCHANGED cfg

\* The manager is running: it has not aborted in assert_not_reached.
Alive == unit.state \in SocketState

\* The events of Next and the reload, while the manager is running.
NextReload ==
    \/ Alive /\ Start
    \/ Alive /\ Stop
    \/ Alive /\ SigchldEvent
    \/ Alive /\ TimerEvent
    \/ Alive /\ FdEvent
    \/ Alive /\ TriggerNotify
    \/ Alive /\ ResetFailed
    \/ Reload

\* The units a reload is run on: every endpoint list, exec command list and
\* User/Group setting; commands whose failure counts, SendSIGKILL=yes.
ReloadConfigs == {c \in Configs : ~c.ignore /\ c.send_sigkill}

InitReload ==
    /\ cfg \in ReloadConfigs
    /\ unit = InitUnit(cfg)

SpecReload == InitReload /\ [][NextReload]_vars

\* What the claim compares across a reload.
Preserved(s) ==
    <<s.state, s.result, s.n_accepted, s.control_pid, s.control_command_id, s.fd>>

\* C19: for a unit in Dead, Listening, Running or Failed, serializing it and
\* deserializing and coldplugging into the freshly loaded unit gives back the
\* same state, result, n_accepted, control pid, control command id and the
\* same open file at every endpoint, whenever socket_coldplug succeeds.
C19_RoundTrip ==
    unit.state \in QuiescentStates =>
        \A o \in manager_reload(unit) : o.r = 0 => Preserved(o.s) = Preserved(unit)

\* The triggered service as socket_trigger_notify sees it when it has failed
\* with SERVICE_FAILURE_START_LIMIT.
ServiceFailedPermanent == [loaded |-> TRUE, state |-> "failed-start-limit"]

\* C20: when a non-accepting socket in Running is notified that its service
\* has failed permanently, the handler leaves the unit on the stop path (or
\* already in Failed) with result FailureServicePermanent.
C20_ServiceDeadPermanent ==
    (unit.state = "Running" /\ ~cfg.accept) =>
        \A t \in socket_trigger_notify(Begin(unit), ServiceFailedPermanent) :
            /\ t.state \in StopStates \cup {"Failed"}
            /\ t.result = "FailureServicePermanent"

(***************************************************************************)
(* Loading and verification.  Under SpecVerify cfg is what the unit file   *)
(* sets and unit is the outcome of socket_load.  An endpoint is "stream"   *)
(* (a socket that can accept), "dgram" (a socket that cannot) or "fifo"    *)
(* (no socket).                                                            *)
(***************************************************************************)
EINVAL == 22

PortKinds == {"stream", "dgram", "fifo"}

VerifyConfigs ==
    [fragment : {"loaded", "masked"},     \* load_state after the fragment is read
     accept : BOOLEAN,
     ports : UNION {[1..n -> PortKinds] : n \in 0..NumPorts},
     max_connections : 0..MaxConnections,
     service : BOOLEAN,                   \* Service= names a unit
     pam_name : BOOLEAN,
     kill_mode : {"control-group", "process", "none"}]

have_non_accept_socket(c) ==
    IF ~c.accept THEN TRUE
    ELSE \E i \in 1..Len(c.ports) : c.ports[i] # "stream"

\* socket_verify without the MaxConnections test: the fault that property
\* C21 has to reject.
socket_verify_any_max_connections(c, load_state, service) ==
    IF load_state # "loaded" THEN 0
    ELSE IF Len(c.ports) = 0 THEN -EINVAL
    ELSE IF c.accept /\ have_non_accept_socket(c) THEN -EINVAL
    ELSE IF c.accept /\ service THEN -EINVAL
    ELSE IF c.pam_name /\ c.kill_mode # "control-group" THEN -EINVAL
    ELSE 0

\* service is UNIT_DEREF(s->service) at the time of the call.
socket_verify(c, load_state, service) ==
    IF load_state # "loaded" THEN 0
    ELSE IF Len(c.ports) = 0 THEN -EINVAL
    ELSE IF c.accept /\ have_non_accept_socket(c) THEN -EINVAL
    ELSE IF c.accept /\ c.max_connections <= 0 THEN -EINVAL
    ELSE IF c.accept /\ service THEN -EINVAL
    ELSE IF c.pam_name /\ c.kill_mode # "control-group" THEN -EINVAL
    ELSE 0

\* The outcomes of socket_load: an error of one of the load steps (-1), or
\* what socket_verify returns.
socket_load_unit(c) ==
    LET done(service, r) ==
            [load_state |-> c.fragment, service |-> service,
             verified |-> r \in {0, -EINVAL}, r |-> r]
        service == c.service \/ (c.fragment = "loaded" /\ have_non_accept_socket(c))
    IN {done(c.service, -1),                 \* unit_load_fragment_and_dropin
        done(service, -1),                   \* a later load step
        done(service, socket_verify(c, c.fragment, service))}

InitVerify ==
    /\ cfg \in VerifyConfigs
    /\ unit = [load_state |-> "stub", service |-> FALSE, verified |-> FALSE, r |-> 0]

Load ==
    /\ unit.load_state = "stub"
    /\ unit' \in socket_load_unit(cfg)
    /\ UNCHANGED cfg

NextVerify == Load

SpecVerify == InitVerify /\ [][NextVerify]_vars

\* C21: a loaded unit is rejected by verification with EINVAL if and only if
\* it has no endpoint, or Accept is set and an endpoint is not an accepting
\* socket, or Accept is set and MaxConnections is 0, or Accept is set and a
\* service is configured, or a PAM name is set and the kill mode is not
\* control-group.
C21_VerifyRejects ==
    (unit.verified /\ unit.load_state = "loaded") =>
        (unit.r = -EINVAL <=>
            \/ Len(cfg.ports) = 0
            \/ cfg.accept /\ \E i \in 1..Len(cfg.ports) : cfg.ports[i] # "stream"
            \/ cfg.accept /\ cfg.max_connections <= 0
            \/ cfg.accept /\ cfg.service
            \/ cfg.pam_name /\ cfg.kill_mode # "control-group")

\* C21, witness: an accepting unit with accepting sockets only, no service
\* and no PAM name, rejected for MaxConnections = 0 alone.
C21_Witness ==
    /\ unit.verified /\ unit.load_state = "loaded" /\ unit.r = -EINVAL
    /\ cfg.accept /\ cfg.max_connections = 0 /\ ~cfg.service /\ ~cfg.pam_name
    /\ Len(cfg.ports) = NumPorts
    /\ \A i \in 1..Len(cfg.ports) : cfg.ports[i] = "stream"

(***************************************************************************)
(* The intrusive list of list.h, which holds the endpoints of a unit.      *)
(* Under SpecList unit is a list: head, and the next and prev link of      *)
(* every item, 0 for NULL; g_op and g_before are history: the last         *)
(* operation and the order of the list before it.                          *)
(***************************************************************************)
MaxItems == 4     \* list_item items[4]

Items == 1..MaxItems

\* IWLIST_PREPEND without the back link of the old head: the fault that
\* property C22 has to reject.
IWLIST_PREPEND_no_back_link(l, item) ==
    [l EXCEPT !.next[item] = l.head, !.prev[item] = 0, !.head = item]

IWLIST_PREPEND(l, item) ==
    LET l1 == [l EXCEPT !.next[item] = l.head, !.prev[item] = 0]
        l2 == IF l.head # 0 THEN [l1 EXCEPT !.prev[l.head] = item] ELSE l1
    IN [l2 EXCEPT !.head = item]

\* Insert b after a, an item of the list.
IWLIST_INSERT_AFTER(l, a, b) ==
    LET l1 == [l EXCEPT !.next[b] = l.next[a], !.prev[b] = a]
        l2 == IF l.next[a] # 0 THEN [l1 EXCEPT !.prev[l.next[a]] = b] ELSE l1
    IN [l2 EXCEPT !.next[a] = b]

IWLIST_REMOVE(l, item) ==
    LET l1 == IF l.next[item] # 0
              THEN [l EXCEPT !.prev[l.next[item]] = l.prev[item]] ELSE l
        l2 == IF l.prev[item] # 0
              THEN [l1 EXCEPT !.next[l.prev[item]] = l.next[item]]
              ELSE [l1 EXCEPT !.head = l.next[item]]
    IN [l2 EXCEPT !.next[item] = 0, !.prev[item] = 0]

\* while ((p = s->ports)) { IWLIST_REMOVE(SocketPort, port, s->ports, p); ... }
RECURSIVE socket_free_ports(_)
socket_free_ports(l) ==
    IF l.head = 0 THEN l ELSE socket_free_ports(IWLIST_REMOVE(l, l.head))

\* The items reached from item i along next, at most n of them.
RECURSIVE list_from(_, _, _)
list_from(l, i, n) ==
    IF i = 0 \/ n = 0 THEN <<>> ELSE <<i>> \o list_from(l, l.next[i], n - 1)

list_items(l) == list_from(l, l.head, MaxItems + 1)

LIST_JUST_US(l, item) == l.next[item] = 0 /\ l.prev[item] = 0

\* IWLIST_HEAD_INIT, and IWLIST_INIT of every item.
InitList ==
    /\ cfg = [items |-> MaxItems]
    /\ unit = [head |-> 0,
               next |-> [i \in Items |-> 0],
               prev |-> [i \in Items |-> 0],
               g_op |-> <<"init", 0, 0>>,
               g_before |-> <<>>]

ListOp(l, op) == [l EXCEPT !.g_op = op, !.g_before = list_items(unit)]

InList(i) == \E k \in 1..Len(list_items(unit)) : list_items(unit)[k] = i

Prepend ==
    /\ \E i \in Items :
           /\ ~InList(i)
           /\ unit' = ListOp(IWLIST_PREPEND(unit, i), <<"prepend", i, 0>>)
    /\ UNCHANGED cfg

InsertAfter ==
    /\ \E a \in Items, b \in Items :
           /\ InList(a) /\ ~InList(b)
           /\ unit' = ListOp(IWLIST_INSERT_AFTER(unit, a, b), <<"insert_after", b, a>>)
    /\ UNCHANGED cfg

Remove ==
    /\ \E i \in Items :
           /\ InList(i)
           /\ unit' = ListOp(IWLIST_REMOVE(unit, i), <<"remove", i, 0>>)
    /\ UNCHANGED cfg

FreePorts ==
    /\ unit.head # 0
    /\ unit' = ListOp(socket_free_ports(unit), <<"free_ports", 0, 0>>)
    /\ UNCHANGED cfg

NextList ==
    \/ Prepend
    \/ InsertAfter
    \/ Remove
    \/ FreePorts

SpecList == InitList /\ [][NextList]_vars

\* next and prev are mutual inverses, the head has no prev, the walk from
\* the head ends at an item with no next, and an item outside the list has
\* no link.
ListLinked ==
    LET seq == list_items(unit)
    IN /\ Len(seq) <= MaxItems
       /\ \A j, k \in 1..Len(seq) : seq[j] = seq[k] => j = k
       /\ unit.head # 0 => unit.prev[unit.head] = 0
       /\ \A i \in Items :
              /\ unit.next[i] # 0 => unit.prev[unit.next[i]] = i
              /\ unit.prev[i] # 0 => unit.next[unit.prev[i]] = i
              /\ ~InList(i) => LIST_JUST_US(unit, i)

\* The sequence s without the item i.
Without(s, i) == SelectSeq(s, LAMBDA x : x # i)

\* The sequence s with b placed right after its item a.
RECURSIVE PlacedAfter(_, _, _)
PlacedAfter(s, a, b) ==
    IF s = <<>> THEN <<>>
    ELSE IF Head(s) = a THEN <<a, b>> \o Tail(s)
    ELSE <<Head(s)>> \o PlacedAfter(Tail(s), a, b)

\* C22: after any sequence of IWLIST_PREPEND, IWLIST_INSERT_AFTER and
\* IWLIST_REMOVE the links are consistent; a prepended item is the new head
\* in front of the old list, an inserted item comes right after the given
\* one, and a removed item has no links and leaves the order of the others
\* as it was.
C22_ListLinks ==
    /\ ListLinked
    /\ unit.g_op[1] = "prepend" =>
           list_items(unit) = <<unit.g_op[2]>> \o unit.g_before
    /\ unit.g_op[1] = "insert_after" =>
           list_items(unit) = PlacedAfter(unit.g_before, unit.g_op[3], unit.g_op[2])
    /\ unit.g_op[1] = "remove" =>
           /\ list_items(unit) = Without(unit.g_before, unit.g_op[2])
           /\ LIST_JUST_US(unit, unit.g_op[2])

\* C22, witness: an item removed from the middle of a full list.
C22_Witness ==
    /\ unit.g_op[1] = "remove"
    /\ Len(unit.g_before) = MaxItems
    /\ unit.g_before[1] # unit.g_op[2]
    /\ unit.g_before[MaxItems] # unit.g_op[2]
    /\ Len(list_items(unit)) = MaxItems - 1

\* What an accepted start request leaves behind: the old result is gone
\* (the result is Success unless a step of this very request failed), and
\* the unit is in the StartPre step when there are ExecStartPre commands
\* and the first one could be spawned, further down the start path when
\* there are none.
StartAccepted(o) ==
    /\ o.r = 0
    /\ o.s.result = "Success" \/ o.s.g_start_failed
    /\ ~o.s.g_start_failed =>
           /\ o.s.state \in StartStates \cup {"Listening"}
           /\ cfg.ncmd["StartPre"] > 0 =>
                  /\ o.s.state = "StartPre"
                  /\ o.s.control_command_id = "StartPre"
                  /\ o.s.control_pid > 0
    /\ o.s.g_start_failed => o.s.state \in StopStates \cup {"Failed"}

\* A request that is answered with r and changes no field of the unit.
OnlyAnswer(outcomes, r) == outcomes = {Ret(Begin(unit), r)}

\* C23: a start request in Dead or Failed resets result to Success and
\* enters the StartPre step; in StartPre, StartChown or StartPost it reports
\* success and changes nothing; in the six stop states it is refused and
\* changes nothing.
C23_StartRequest ==
    LET outcomes == socket_start(Begin(unit))
    IN /\ unit.state \in {"Dead", "Failed"} => \A o \in outcomes : StartAccepted(o)
       /\ unit.state \in StartStates => OnlyAnswer(outcomes, 0)
       /\ unit.state \in StopStates => OnlyAnswer(outcomes, -1)

\* C23 as amended: in Dead or Failed the request may also be refused because
\* the triggered service is not loaded or is active, and then it changes
\* nothing.
C23_StartRequestAmended ==
    LET outcomes == socket_start(Begin(unit))
    IN /\ unit.state \in {"Dead", "Failed"} =>
              \A o \in outcomes :
                  \/ StartAccepted(o)
                  \/ o.r < 0 /\ o.s = Begin(unit) /\ unit.service
       /\ unit.state \in StartStates => OnlyAnswer(outcomes, 0)
       /\ unit.state \in StopStates => OnlyAnswer(outcomes, -1)

\* C23, witness: a start request handled in Failed has replaced the latched
\* failure by Success and left the unit in StartPre.
C23_Witness ==
    /\ unit.g_prev = "Failed"
    /\ unit.state = "StartPre"
    /\ unit.result = "Success"
    /\ unit.control_command_id = "StartPre"

\* C24: a stop request in Listening or Running enters the StopPre step (the
\* unit is in StopPre when an ExecStopPre command could be spawned, further
\* down the stop path otherwise); in StartPre, StartChown or StartPost it
\* enters StopPreSigterm with the control child still recorded and the timer
\* armed (or, with nothing left to wait for, goes on to the StopPost step),
\* never StopPre; in the six stop states it changes nothing.
C24_StopRequest ==
    LET outcomes == socket_stop(Begin(unit))
    IN /\ unit.state \in {"Listening", "Running"} =>
              \A o \in outcomes :
                  /\ o.r = 0
                  /\ o.s.state \in {"StopPre", "StopPost", "FinalSigterm", "Dead", "Failed"}
                  /\ o.s.state = "StopPre" <=>
                         (cfg.ncmd["StopPre"] > 0 /\ o.s.result = unit.result)
                  /\ o.s.state = "StopPre" =>
                         o.s.control_command_id = "StopPre" /\ o.s.control_pid > 0
       /\ unit.state \in StartStates =>
              \A o \in outcomes :
                  /\ o.r < 0
                  /\ o.s.state \in {"StopPreSigterm", "StopPost", "FinalSigterm",
                                    "Dead", "Failed"}
                  /\ o.s.state = "StopPreSigterm" =>
                         /\ o.s.timer
                         /\ o.s.control_pid = unit.control_pid
                         /\ o.s.result = unit.result
                         /\ o.s.fd = unit.fd
       /\ unit.state \in StopStates => OnlyAnswer(outcomes, 0)

\* C24, witness: a stop request handled in StartPost has left the unit in
\* StopPreSigterm with the StartPost child still its control child.
C24_Witness ==
    /\ unit.g_prev = "StartPost"
    /\ unit.state = "StopPreSigterm"
    /\ unit.control_pid > 0
    /\ unit.control_command_id = "StartPost"
    /\ unit.g_interrupted = "stop"

\* How socket_sigchld_event judges the exit of the control child of s.
ExitJudged(s, code) ==
    IF s.control_command # 0 /\ cfg.ignore THEN "Success" ELSE exit_result(code)

\* The current command has a successor in its list.
HasSuccessor(s) ==
    s.control_command # 0 /\ command_next(s.control_command_id, s.control_command) # 0

\* The unit as the handler finds it when its control child has ended.
ControlChildReaped ==
    [Begin(unit) EXCEPT !.children = @ \ {unit.control_pid},
                        !.pid_watch = @ \ {unit.control_pid}]

\* The ways the living control child can end without a further command of
\* the list being run.
FinalExits ==
    {code \in ExitCodes :
        /\ unit.control_pid \in unit.children
        /\ ~(HasSuccessor(unit) /\ ExitJudged(unit, code) = "Success")}

\* The states the exit of the control child in state leads to: the step of
\* the table, or a later one of the same call when the step has nothing to
\* run or fails.
NextStepStates(state, ok) ==
    CASE state = "StartPre" ->
             IF ok THEN {"StartChown", "StartPost", "Listening",
                         "StopPre", "StopPost", "FinalSigterm", "Failed"}
             ELSE {"FinalSigterm", "Failed"}
      [] state = "StartChown" ->
             IF ok THEN {"StartPost", "Listening",
                         "StopPre", "StopPost", "FinalSigterm", "Failed"}
             ELSE {"StopPre", "StopPost", "FinalSigterm", "Failed"}
      [] state = "StartPost" ->
             IF ok THEN {"Listening", "StopPre", "StopPost", "FinalSigterm", "Failed"}
             ELSE {"StopPre", "StopPost", "FinalSigterm", "Failed"}
      [] state \in {"StopPre", "StopPreSigterm", "StopPreSigkill"} ->
             {"StopPost", "FinalSigterm", "Dead", "Failed"}
      [] state \in {"StopPost", "FinalSigterm", "FinalSigkill"} -> {"Dead", "Failed"}
      [] OTHER -> {}

\* C25: when the control child exits and no further command of the list is
\* to be run, the next step follows the table (StartPre to StartChown or
\* FinalSigterm, StartChown to StartPost or StopPre, StartPost to Listening
\* or StopPre, the StopPre states to StopPost, StopPost and the Final states
\* to Dead or Failed), the old control pid is gone, and a failing outcome is
\* the result the handler leaves.
C25_ChildExitTable ==
    \A code \in FinalExits :
        \A t \in socket_sigchld_event(ControlChildReaped, unit.control_pid, code) :
            LET f == ExitJudged(unit, code)
            IN /\ t.state \in NextStepStates(unit.state, f = "Success")
               /\ (unit.state = "StartPre" /\ f = "Success" /\ cfg.user
                       /\ ~t.g_start_failed) => t.state = "StartChown"
               /\ (unit.state = "StartChown" /\ f = "Success"
                       /\ cfg.ncmd["StartPost"] > 0 /\ ~t.g_start_failed) =>
                      t.state = "StartPost"
               /\ (unit.state = "StartPost" /\ f = "Success" /\ ~t.g_start_failed) =>
                      t.state = "Listening"
               /\ t.control_pid = 0 \/ (t.control_pid \in t.children /\ t.state # unit.state)
               /\ f # "Success" => t.result = f

\* The unit as the handler finds it when its timer has fired.
TimerFired == [Begin(unit) EXCEPT !.timer = FALSE]

\* The states a timer fire in state leads to: the one of the table, or a
\* later one of the same call when there is nothing to wait for or the step
\* fails.  The exit to Dead carries FailureTimeout and so ends in Failed.
TimeoutStates(state) ==
    CASE state = "StartPre" -> {"FinalSigterm", "Failed"}
      [] state \in {"StartChown", "StartPost"} ->
             {"StopPre", "StopPost", "FinalSigterm", "Failed"}
      [] state = "StopPre" -> {"StopPreSigterm", "StopPost", "FinalSigterm", "Failed"}
      [] state = "StopPreSigterm" ->
             IF cfg.send_sigkill
             THEN {"StopPreSigkill", "StopPost", "FinalSigterm", "Failed"}
             ELSE {"StopPost", "FinalSigterm", "Failed"}
      [] state = "StopPreSigkill" -> {"StopPost", "FinalSigterm", "Failed"}
      [] state = "StopPost" -> {"FinalSigterm", "Failed"}
      [] state = "FinalSigterm" ->
             IF cfg.send_sigkill THEN {"FinalSigkill", "Failed"} ELSE {"Failed"}
      [] state = "FinalSigkill" -> {"Failed"}
      [] OTHER -> {}

\* C26: the timer is armed in no quiescent state, and when it fires the
\* handler leaves the unit in another state, the one the table names for
\* the state it fired in, with result FailureTimeout.
C26_TimerTable ==
    unit.timer =>
        /\ unit.state \notin QuiescentStates
        /\ \A t \in socket_timer_event(TimerFired) :
               /\ t.state # unit.state
               /\ t.state \in TimeoutStates(unit.state)
               /\ t.result = "FailureTimeout"

\* The ways the living control child can end with a further command of the
\* list to be run: judged successful, and the command has a successor.
SuccessorExits ==
    {code \in ExitCodes :
        /\ unit.control_pid \in unit.children
        /\ HasSuccessor(unit)
        /\ ExitJudged(unit, code) = "Success"}

\* C27: when the control command exits, is judged successful and has a
\* successor in its list, the handler spawns the successor and leaves the
\* state, the control-command id and the result as they were; it leaves
\* them otherwise only when the successor cannot be spawned, which is a
\* failure (FailureResources).
C27_RunNext ==
    \A code \in SuccessorExits :
        \A t \in socket_sigchld_event(ControlChildReaped, unit.control_pid, code) :
            \/ /\ t.state = unit.state
               /\ t.control_command_id = unit.control_command_id
               /\ t.control_command =
                      command_next(unit.control_command_id, unit.control_command)
               /\ t.control_pid \in t.children
               /\ t.control_pid \in t.pid_watch
               /\ t.result = unit.result
            \/ /\ t.result = "FailureResources"
               /\ t.state # unit.state \/ t.control_pid = 0

\* C27, witness: the second ExecStartPre command runs in StartPre, spawned
\* when the first one exited.
C27_Witness ==
    /\ unit.g_prev = "StartPre"
    /\ unit.state = "StartPre"
    /\ unit.control_command_id = "StartPre"
    /\ unit.control_command = MaxCmds
    /\ unit.control_pid \in unit.children
    /\ unit.result = "Success"

\* C28: a stop sequence never goes from StopPre to FinalSigterm without the
\* StopPost step: when a handler that began in StopPre leaves the unit in
\* FinalSigterm, socket_enter_stop_post has run and made StopPost the
\* current command list.
C28_StopPostNotSkipped ==
    (unit.g_prev = "StopPre" /\ unit.state = "FinalSigterm") =>
        unit.control_command_id = "StopPost"

\* C29: a latched failure goes back to Success only through an accepted
\* start request or reset-failed: no other step, whatever result it
\* carries, turns a result that is a failure into Success.
C29_SuccessNeverOverwrites ==
    [][(unit.result # "Success" /\ unit'.result = "Success") =>
           \/ ResetFailed
           \/ unit.state \in {"Dead", "Failed"} /\ Start]_vars

\* C29, witness: the stop path has gone from StopPre on to StopPost, a
\* transition made with socket_enter_stop_post, while the timeout latched
\* before is still the result.
C29_Witness ==
    /\ unit.g_prev = "StopPre"
    /\ unit.state = "StopPost"
    /\ unit.result = "FailureTimeout"
    /\ ~unit.timer \/ unit.control_pid > 0

\* C30: an event on a listen fd handled in a state other than Listening
\* changes nothing; in Listening an event whose flags are not exactly
\* EV_READ starts the stop path with socket_enter_stop_pre and the result
\* FailureResources: the unit is in StopPre with an ExecStopPre command
\* running, or further down the stop path.
C30_FdEvent ==
    /\ unit.state # "Listening" =>
           \A revents \in {"EV_READ", "EV_ERROR"} :
               socket_fd_event(Begin(unit), revents) = {Begin(unit)}
    /\ unit.state = "Listening" =>
           \A t \in socket_fd_event(Begin(unit), "EV_ERROR") :
               /\ t.result = "FailureResources"
               /\ t.state \in {"StopPre", "StopPost", "FinalSigterm", "Failed"}
               /\ t.state = "StopPre" =>
                      /\ cfg.ncmd["StopPre"] > 0
                      /\ t.control_command_id = "StopPre"
                      /\ t.control_pid > 0
                      /\ t.fd = unit.fd
               /\ cfg.ncmd["StopPre"] = 0 => t.state # "StopPre"

\* C30, witness: a handler that began in Listening with the start long
\* completed has put the unit into StopPre with FailureResources.
C30_Witness ==
    /\ unit.g_prev = "Listening"
    /\ unit.state = "StopPre"
    /\ unit.result = "FailureResources"
    /\ unit.control_command_id = "StopPre"
    /\ AllOpen
    /\ ~unit.g_pending

\* C31: for a non-accepting socket in Listening with no stop pending, a
\* readable event queues the start job of the service only if no triggered
\* unit is active or has a job pending, and then the unit is in Running;
\* with the service reference missing, or when the job cannot be queued, no
\* job is queued and the unit is on the stop path that socket_enter_stop_pre
\* starts, with result FailureResources.  An event handled in Running queues
\* nothing.
C31_TriggerOnce ==
    /\ (~cfg.accept /\ unit.state = "Listening") =>
           \A pending \in unit_active_or_pending, service \in BOOLEAN :
               LET s == [Begin(unit) EXCEPT !.service = service]
                   outcomes == socket_enter_running_on(s, -1, FALSE, pending)
               IN /\ outcomes \subseteq socket_enter_running(s, -1)
                  /\ \A t \in outcomes :
                         /\ t.g_accept \in {"none", "job_queued", "already_pending"}
                         /\ t.g_accept = "job_queued" => (~pending /\ service)
                         /\ t.g_accept = "already_pending" <=> pending
                         /\ (pending \/ t.g_accept = "job_queued") <=>
                                t.state = "Running"
                         /\ t.state = "Running" =>
                                (t.result = unit.result /\ t.fd = unit.fd)
                         /\ t.state # "Running" =>
                                /\ t.result = "FailureResources"
                                /\ t.state \in {"StopPre", "StopPost",
                                                "FinalSigterm", "Failed"}
                                /\ cfg.ncmd["StopPre"] = 0 => t.state # "StopPre"
                  /\ (~pending /\ service) =>
                         \E t \in outcomes : t.g_accept = "job_queued"
                  /\ (~pending /\ ~service) =>
                         \A t \in outcomes : t.state # "Running"
    /\ unit.state = "Running" =>
           \A t \in socket_fd_event(Begin(unit), "EV_READ") : t.g_accept = "none"

\* C31, witness: the readable event has queued the start job and moved the
\* non-accepting unit from Listening to Running.
C31_Witness ==
    /\ ~cfg.accept
    /\ unit.g_prev = "Listening"
    /\ unit.state = "Running"
    /\ unit.g_accept = "job_queued"
    /\ AllOpen

\* C32: with a stop of the unit pending, a readable event in Listening
\* activates nothing (no start job, no connection handed over, n_accepted
\* and n_connections unchanged) and the unit stays in Listening with its
\* endpoints open and watched again, or is on the stop path with result
\* FailureResources when watching them fails.  The code does not keep it:
\* the endpoints are closed and not opened again.
C32_StopPending ==
    unit.state = "Listening" =>
        \A pending \in unit_active_or_pending :
            \A t \in socket_enter_running_on(Begin(unit), -1, TRUE, pending) :
                /\ t.g_accept = "none"
                /\ t.conn_fd = "none"
                /\ t.n_accepted = unit.n_accepted
                /\ t.n_connections = unit.n_connections
                /\ \/ /\ t.state = "Listening"
                      /\ \A p \in Ports : t.fd[p] >= 0 /\ t.watched[p]
                   \/ /\ t.state \in {"StopPre", "StopPost", "FinalSigterm", "Failed"}
                      /\ t.result = "FailureResources"

\* The notification that the service has reached SERVICE_RUNNING.
ServiceRunning == [loaded |-> TRUE, state |-> "running"]

\* C33: a service-state change notification affects the unit only in
\* Running when it is non-accepting or in Listening when it is accepting,
\* and leaves it unchanged in every other combination; for a non-accepting
\* unit that it may affect, the notification that the service is running
\* puts the unit in Running.  The code does not keep the first part: it
\* moves a non-accepting unit from Listening to Running.
C33_TriggerNotify ==
    /\ ~ \/ unit.state = "Running" /\ ~cfg.accept
         \/ unit.state = "Listening" /\ cfg.accept
       => \A other \in OtherUnits :
              socket_trigger_notify(Begin(unit), other) = {Begin(unit)}
    /\ (unit.state = "Running" /\ ~cfg.accept) =>
           \A t \in socket_trigger_notify(Begin(unit), ServiceRunning) :
               t.state = "Running"

\* C33 as the code has it: the notification affects the unit only when it
\* is non-accepting, in Listening or Running, and the other unit is a loaded
\* service; everywhere else it leaves the unit unchanged.  For such a unit
\* the notification that the service is running puts it in Running with
\* nothing watched and result and descriptors untouched; in Listening no
\* other notification changes anything.
C33_TriggerNotifyAmended ==
    /\ (unit.state \notin {"Listening", "Running"} \/ cfg.accept) =>
           \A other \in OtherUnits :
               socket_trigger_notify(Begin(unit), other) = {Begin(unit)}
    /\ \A other \in OtherUnits :
           ~other.loaded => socket_trigger_notify(Begin(unit), other) = {Begin(unit)}
    /\ (unit.state \in {"Listening", "Running"} /\ ~cfg.accept) =>
           \A t \in socket_trigger_notify(Begin(unit), ServiceRunning) :
               /\ t.state = "Running"
               /\ t.result = unit.result
               /\ t.fd = unit.fd
               /\ \A p \in Ports : ~t.watched[p]
    /\ (unit.state = "Listening" /\ ~cfg.accept) =>
           \A other \in OtherUnits \ {ServiceRunning} :
               socket_trigger_notify(Begin(unit), other) = {Begin(unit)}

\* C33, witness: the notification that the service is running has moved a
\* non-accepting unit from Listening to Running (no fd event did: that one
\* records what it found pending or queued).
C33_Witness ==
    /\ ~cfg.accept
    /\ unit.g_prev = "Listening"
    /\ unit.state = "Running"
    /\ unit.g_accept = "none"
    /\ AllOpen
    /\ \A p \in Ports : ~unit.watched[p]

(***************************************************************************)
(* socket_distribute_fds.  Under SpecDistribute cfg is the endpoint list   *)
(* of the loaded unit (type and address of every endpoint) and the address *)
(* every descriptor of the FDSet is bound to (0: none that an endpoint can *)
(* have); unit is the deserialized unit: the fd of every endpoint, the     *)
(* FDSet, deserialized_state, and as history the values of the three       *)
(* before the sweep in g_fd, g_fds and g_state.                            *)
(***************************************************************************)
MaxFds == 2       \* descriptors left in the FDSet after deserialization

\* The descriptors the FDSet can hold.
LeftoverFds == {OpenFd(NumPorts) + i : i \in 1..MaxFds}

Addresses == 1..NumPorts

\* socket_address_matches_fd(&p->address, fd)
socket_address_matches_fd(p, fd) == cfg.fd_address[fd] = cfg.address[p]

\* 'p->fd = fdset_remove(fds, fd)' without the removal: the fault that
\* property C34 has to reject.
RECURSIVE distribute_from_keeps_fdset(_, _)
distribute_from_keeps_fdset(d, p) ==
    IF p > NumPorts THEN {d}
    ELSE IF cfg.ptype[p] # "Socket" \/ d.fd[p] >= 0
    THEN distribute_from_keeps_fdset(d, p + 1)
    ELSE LET matching == {fd \in d.fds : socket_address_matches_fd(p, fd)}
         IN IF matching = {} THEN distribute_from_keeps_fdset(d, p + 1)
            ELSE UNION {distribute_from_keeps_fdset(
                            [d EXCEPT !.fd[p] = fd,
                                      !.deserialized_state = "Listening"], p + 1)
                        : fd \in matching}

\* The sweep of socket_distribute_fds from endpoint p on.  FDSET_FOREACH
\* walks the set in an order the hash table decides: the endpoint takes any
\* one of the descriptors that match.
RECURSIVE distribute_from(_, _)
distribute_from(d, p) ==
    IF p > NumPorts THEN {d}
    ELSE IF cfg.ptype[p] # "Socket" \/ d.fd[p] >= 0 THEN distribute_from(d, p + 1)
    ELSE LET matching == {fd \in d.fds : socket_address_matches_fd(p, fd)}
         IN IF matching = {} THEN distribute_from(d, p + 1)
            ELSE UNION {distribute_from([d EXCEPT !.fd[p] = fd,
                                                  !.fds = @ \ {fd},
                                                  !.deserialized_state = "Listening"],
                                        p + 1)
                        : fd \in matching}

socket_distribute_fds(d) == distribute_from(d, 1)

\* The unit after socket_deserialize_item has run on every item: an endpoint
\* is closed or holds the descriptor its item named, the FDSet holds what no
\* item took.
InitDistribute ==
    /\ cfg \in [ptype : [Ports -> {"Socket", "Fifo"}],
                address : [Ports -> Addresses],
                fd_address : [LeftoverFds -> {0} \cup Addresses]]
    /\ \E fd \in [Ports -> BOOLEAN], fds \in SUBSET LeftoverFds,
          state \in {"Dead", "Listening", "Running"} :
           unit = [fd |-> [p \in Ports |-> IF fd[p] THEN OpenFd(p) ELSE -1],
                   fds |-> fds,
                   deserialized_state |-> state,
                   g_swept |-> FALSE,
                   g_fd |-> [p \in Ports |-> IF fd[p] THEN OpenFd(p) ELSE -1],
                   g_fds |-> fds,
                   g_state |-> state]

\* manager_distribute_fds calls the handler once, after the deserialization.
DistributeFds ==
    /\ ~unit.g_swept
    /\ \E t \in socket_distribute_fds(unit) : unit' = [t EXCEPT !.g_swept = TRUE]
    /\ UNCHANGED cfg

NextDistribute == DistributeFds

SpecDistribute == InitDistribute /\ [][NextDistribute]_vars

\* The endpoints the sweep has given a descriptor.
Matched == {p \in Ports : unit.fd[p] # unit.g_fd[p]}

\* C34: socket_distribute_fds attaches a descriptor of the FDSet to at most
\* one endpoint, which is a socket endpoint that was closed and whose address
\* matches it, and removes it from the FDSet; an endpoint that held an fd
\* keeps it; deserialized_state is Listening after the sweep if an endpoint
\* was matched and is what it was otherwise.
C34_DistributeFds ==
    /\ \A p \in Matched :
           /\ unit.g_fd[p] = -1
           /\ cfg.ptype[p] = "Socket"
           /\ unit.fd[p] \in unit.g_fds
           /\ socket_address_matches_fd(p, unit.fd[p])
           /\ \A q \in Matched : unit.fd[q] = unit.fd[p] => q = p
    /\ unit.fds = unit.g_fds \ {unit.fd[p] : p \in Matched}
    /\ unit.deserialized_state =
           IF Matched # {} THEN "Listening" ELSE unit.g_state

\* C34, witness: two closed socket endpoints with one address and one
\* matching descriptor in the FDSet; the sweep has attached it to one of
\* them and forced Listening, the other endpoint is still closed and a
\* second, unmatched descriptor is still in the FDSet.
C34_Witness ==
    /\ unit.g_swept
    /\ Cardinality(Matched) = 1
    /\ \E p, q \in Ports :
           /\ p # q
           /\ cfg.ptype[p] = "Socket" /\ cfg.ptype[q] = "Socket"
           /\ cfg.address[p] = cfg.address[q]
           /\ unit.g_fd[p] = -1 /\ unit.g_fd[q] = -1
           /\ unit.fd[q] = -1
    /\ unit.g_state = "Dead"
    /\ unit.deserialized_state = "Listening"
    /\ unit.fds # {}

\* The outcomes of socket_coldplug on the unit as deserialized from the
\* current one: P(d, t) for every outcome t with return value in rs, d being
\* the deserialized unit socket_coldplug started from.
AfterColdplug(rs, P(_, _)) ==
    unit.state \in SocketState =>
        \A d \in manager_deserialize(Begin(unit)) :
            \A o \in socket_coldplug(d.s, d.deserialized_state) :
                o.r \in rs => P(d, o.s)

\* What C35 says of a unit t that socket_coldplug has accepted.
ColdplugCondition(d, t) ==
    /\ t.state = d.deserialized_state
    /\ IF t.state \in TransientStates
       THEN t.control_pid > 0 /\ t.control_pid \in t.pid_watch /\ t.timer
       ELSE t.pid_watch = {} /\ ~t.timer
    /\ IF t.state \in OpenStates
       THEN \A p \in Ports : t.fd[p] >= 0
       ELSE \A p \in Ports : t.fd[p] = -1
    /\ \A p \in Ports : t.watched[p] <=> t.state = "Listening"
    /\ t.state \in OpenStates =>
           \A p \in Ports : d.s.fd[p] >= 0 => t.fd[p] = d.s.fd[p]

\* C35: after a successful socket_coldplug with deserialized state D the
\* unit is in state D; the control pid is watched and the timer armed
\* exactly when D is transient; every endpoint is open exactly when D is
\* StartChown, StartPost, Listening, Running, StopPre, StopPreSigterm or
\* StopPreSigkill; the endpoints are watched exactly when D is Listening; an
\* endpoint whose descriptor was transplanted keeps it.  The code does not
\* keep it for a unit that a refused coldplug has left behind.
C35_ColdplugCondition == AfterColdplug({0}, ColdplugCondition)

\* What C38 says of a unit t that socket_coldplug has refused.
ColdplugRefused(d, t) ==
    /\ t.state = "Dead"
    /\ ~t.timer
    /\ t.pid_watch = {}
    /\ \A p \in Ports : ~t.watched[p] /\ t.fd[p] = -1

\* C38: when socket_coldplug refuses the deserialized state (-EBADMSG, or a
\* watch or open step fails) the unit is left in Dead with the timer not
\* armed, no pid watched, no endpoint watched and every endpoint closed.
\* The code does not keep it.
C38_ColdplugRefusal == AfterColdplug({-1}, ColdplugRefused)

\* A stop request has aborted the start: the unit is in StopPreSigterm with
\* the signalled command of the start phase still its control child.
StartAborted ==
    /\ unit.state = "StopPreSigterm"
    /\ unit.control_command_id \in {"StartPre", "StartChown", "StartPost"}
    /\ unit.control_pid \in unit.children

\* C36: once a stop request has aborted a start, no further command of the
\* start phase is spawned: when the signalled command exits, whatever its
\* exit status, the rest of its list is not run and the unit goes on with
\* the StopPost step (StopPost, or what follows when there is nothing to run
\* or wait for).  The code does not keep it.
C36_AbortedStartRunsNothing ==
    StartAborted =>
        \A code \in ExitCodes :
            \A t \in socket_sigchld_event(ControlChildReaped, unit.control_pid, code) :
                /\ t.control_command_id \notin {"StartPre", "StartChown", "StartPost"}
                /\ t.state \in {"StopPost", "FinalSigterm", "Dead", "Failed"}

\* C37: state and result agree between events: in Dead, Listening and
\* Running the result is Success, in Failed it is not.  The code does not
\* keep it for a unit that a refused coldplug has left behind.
C37_StateResultConsistent ==
    /\ unit.state \in {"Dead", "Listening", "Running"} => unit.result = "Success"
    /\ unit.state = "Failed" => unit.result # "Success"

\* C39: reset-failed moves a unit in Failed to Dead with result Success; in
\* any other state it leaves the state, the control child, the timer and the
\* endpoints as they are; applying it twice gives what applying it once
\* gives.
C39_ResetFailed ==
    LET s == Begin(unit)
        t == socket_reset_failed(s)
    IN /\ s.state = "Failed" => (t.state = "Dead" /\ t.result = "Success")
       /\ s.state # "Failed" =>
              /\ t.state = s.state
              /\ t.control_pid = s.control_pid
              /\ t.pid_watch = s.pid_watch
              /\ t.control_command = s.control_command
              /\ t.control_command_id = s.control_command_id
              /\ t.timer = s.timer
              /\ t.fd = s.fd
              /\ t.watched = s.watched
       /\ socket_reset_failed(t) = t

\* C39, witness: reset-failed has moved the unit from Failed to Dead.
C39_Witness ==
    /\ unit.g_prev = "Failed"
    /\ unit.state = "Dead"
    /\ unit.result = "Success"

\* C40: whenever the unit is in Dead, Listening, Running or Failed no
\* control child is tracked: control_pid is 0, no pid is watched, the
\* control-command cursor is NULL and control_command_id is invalid.  The
\* code does not keep it for a unit that a refused coldplug has left behind.
C40_NoControlChildWhenQuiescent ==
    unit.state \in QuiescentStates =>
        /\ unit.control_pid = 0
        /\ unit.pid_watch = {}
        /\ unit.control_command = 0
        /\ unit.control_command_id = "Invalid"

====
